---- MODULE Spec2Model ----
(***************************************************************************)
(* DerivativesDataSink (datasink.py): the writer that names, copies and    *)
(* header-normalizes derivatives and writes their JSON sidecar.            *)
(*                                                                         *)
(* A writer is an object: __init__ builds it, traits of `inputs` are set   *)
(* by assignment, and every run() executes _run_interface once.  File      *)
(* names are strings built by concatenation; an extension is the sequence  *)
(* of its suffixes (<<".nii", ".gz">>) so that endswith() can be computed. *)
(***************************************************************************)
EXTENDS Naturals, Sequences, FiniteSets, TLC

VARIABLES
    allowed,    \* self._allowed_entities: the declared extra labels, in order
    metadata,   \* self._metadata: key -> value
    inputs,     \* self.inputs: the traits of the input spec
    results,    \* self._results: out_file, out_meta, compression, fixed_hdr
    fs,         \* the destination tree: directories and files with content
    ops,        \* the filesystem operations of the last invocation, in order
    status,     \* "done" | "error": how the invocation of these inputs ended;
                \* "ready": the inputs were not run yet
    nruns       \* number of invocations of this writer so far

vars == <<allowed, metadata, inputs, results, fs, ops, status, nruns>>

-----------------------------------------------------------------------------
(* Bounds of the model *)

MaxRuns == 2
MaxFiles == 2

-----------------------------------------------------------------------------
(* Values *)

Undefined == "<undefined>"
NoneVal == "None"
EmptyMap == << >>

\* dict.update: the entries of u replace those of d
DictUpdate(d, u) ==
    [k \in (DOMAIN d) \cup (DOMAIN u) |-> IF k \in DOMAIN u THEN u[k] ELSE d[k]]

Last(s) == s[Len(s)]
Front(s) == SubSeq(s, 1, Len(s) - 1)

\* A label of a name: "key-val", or a bare token such as the datatype "bold"
Tok(k, v) == [key |-> k, val |-> v]
Render(t) == IF t.key = "" THEN t.val ELSE t.key \o "-" \o t.val

\* '_'.join(rendered tokens)
RECURSIVE JoinTokens(_)
JoinTokens(ts) ==
    IF ts = << >> THEN ""
    ELSE IF Len(ts) = 1 THEN Render(ts[1])
    ELSE Render(ts[1]) \o "_" \o JoinTokens(Tail(ts))

-----------------------------------------------------------------------------
(* niworkflows.utils.misc.splitext on a path: the extension (.gz safe), as  *)
(* the sequence of its suffixes                                            *)

SplitextExt(path) == path.ext

EndsWith(ext, suffixes) ==
    /\ Len(ext) >= Len(suffixes)
    /\ SubSeq(ext, Len(ext) - Len(suffixes) + 1, Len(ext)) = suffixes

\* lines 184-187: the compression rule
ResolveExt(ext, compress) ==
    IF compress = "True" /\ ~EndsWith(ext, <<".gz">>) THEN ext \o <<".gz">>
    ELSE IF compress = "False" /\ EndsWith(ext, <<".gz">>) THEN Front(ext)
    ELSE ext

\* niworkflows _copy_any: True unless neither name is gzipped
CopyAny(srcExt, dstExt) == EndsWith(srcExt, <<".gz">>) \/ EndsWith(dstExt, <<".gz">>)

-----------------------------------------------------------------------------
(* BIDS_NAME.search(src_fname): the name must start with the subject       *)
(* label; ses, task, acq, rec, run follow, each optional, in this order.   *)

EntityOrder == <<"ses", "task", "acq", "rec", "run">>

IsLabel(t, keys) == t.key \in keys /\ t.val # ""

\* the optional groups: g is the index of the group tried, p the token read
RECURSIVE MatchGroups(_, _, _, _)
MatchGroups(ts, g, p, got) ==
    IF g > Len(EntityOrder) THEN got
    ELSE IF p <= Len(ts) /\ IsLabel(ts[p], {EntityOrder[g]})
         THEN MatchGroups(ts, g + 1, p + 1,
                          [got EXCEPT ![EntityOrder[g]] = Render(ts[p])])
         ELSE MatchGroups(ts, g + 1, p, got)

NoGroups == [k \in {EntityOrder[g] : g \in 1..Len(EntityOrder)} |-> NoneVal]

SubjectKeys == {"sub", "tpl"}

\* the pattern with its subject group as optional as the others
BidsMatchOptionalSubject(ts) ==
    [matched |-> TRUE,
     subject_id |-> IF ts # << >> THEN Render(ts[1]) ELSE NoneVal,
     groups |-> MatchGroups(ts, 1, 2, NoGroups)]

BidsMatch(ts) ==
    IF ts # << >> /\ IsLabel(ts[1], SubjectKeys)
    THEN [matched |-> TRUE, subject_id |-> Render(ts[1]),
          groups |-> MatchGroups(ts, 1, 2, NoGroups)]
    ELSE [matched |-> FALSE, subject_id |-> NoneVal, groups |-> NoGroups]

-----------------------------------------------------------------------------
(* Destination directory, lines 193-205 *)

BaseDirectory == "/out"
OutPathBase == "templateflowreg"

OutDirs(m, mod) ==
    LET d1 == BaseDirectory \o "/" \o OutPathBase
        d2 == d1 \o "/" \o m.subject_id
        d3 == IF m.groups["ses"] # NoneVal THEN d2 \o "/" \o m.groups["ses"] ELSE d2
        d4 == d3 \o "/" \o mod
    IN  <<d1, d2, d3, d4>>

-----------------------------------------------------------------------------
(* File name, lines 206-243 *)

\* '{i:04d}'
DigitStr == <<"0", "1", "2", "3", "4", "5", "6", "7", "8", "9">>

RECURSIVE Decimal(_)
Decimal(n) ==
    IF n < 10 THEN DigitStr[n + 1] ELSE Decimal(n \div 10) \o DigitStr[(n % 10) + 1]

RECURSIVE NDigits(_)
NDigits(n) == IF n < 10 THEN 1 ELSE 1 + NDigits(n \div 10)

RECURSIVE Zeros(_)
Zeros(k) == IF k = 0 THEN "" ELSE "0" \o Zeros(k - 1)

IndexWidth == 4

\* '{i}': no padding
FmtUnpadded(i) == Decimal(i)

Fmt04d(i) ==
    LET w == NDigits(i)
    IN  (IF w < IndexWidth THEN Zeros(IndexWidth - w) ELSE "") \o Decimal(i)

\* lines 208-212: the dict of the declared labels that have a value
AllowedEntities(al, inp) ==
    [k \in {al[j] : j \in {j \in 1..Len(al) : inp.entities[al[j]] # Undefined}}
        |-> "_" \o k \o "-" \o inp.entities[k]]

\* lines 214-215: joined in the declared order
RECURSIVE EntityPieces(_, _)
EntityPieces(al, dict) ==
    IF al = << >> THEN << >>
    ELSE <<[kind |-> "lit",
            s |-> IF Head(al) \in DOMAIN dict THEN dict[Head(al)] ELSE ""]>>
         \o EntityPieces(Tail(al), dict)

Field(name) == [kind |-> "field", s |-> name]

FormatBase(al, inp) ==
    <<Field("bname"), Field("space"), Field("desc")>>
        \o EntityPieces(al, AllowedEntities(al, inp))

\* the index put where {extra} is, before the suffix
FormatStrIndexFirst(al, inp) ==
    IF Len(inp.in_file) > 1 /\ ~inp.extra_values.defined
    THEN FormatBase(al, inp) \o <<Field("i"), Field("suffix"), Field("dtype")>>
    ELSE FormatBase(al, inp) \o <<Field("extra"), Field("suffix"), Field("dtype")>>

\* lines 217-219
FormatStr(al, inp) ==
    IF Len(inp.in_file) > 1 /\ ~inp.extra_values.defined
    THEN FormatBase(al, inp) \o <<Field("suffix"), Field("i"), Field("dtype")>>
    ELSE FormatBase(al, inp) \o <<Field("extra"), Field("suffix"), Field("dtype")>>

\* str.format: every field replaced by its value
RECURSIVE Format(_, _)
Format(fmt, args) ==
    IF fmt = << >> THEN ""
    ELSE (IF Head(fmt).kind = "lit" THEN Head(fmt).s ELSE args[Head(fmt).s])
         \o Format(Tail(fmt), args)

\* lines 221-224
SpaceStr(inp) == IF inp.space # "" THEN "_space-" \o inp.space ELSE ""
DescStr(inp) == IF inp.desc # "" THEN "_desc-" \o inp.desc ELSE ""
SuffixStr(inp) == IF inp.suffix # "" THEN "_" \o inp.suffix ELSE ""
DtypeStr(inp, dtype) == IF ~inp.keep_dtype THEN "" ELSE "_" \o dtype

-----------------------------------------------------------------------------
(* Header check, lines 246-274 *)

IsNii(ext) == EndsWith(ext, <<".nii">>) \/ EndsWith(ext, <<".nii", ".gz">>)

\* isinstance(nii, (Nifti1Image, Nifti2Image))
IsNifti(img) == img.kind = "nifti"

\* templateflow.api.templates(): the registry of standard spaces
StandardSpaces == {"MNI152NLin2009cAsym", "fsaverage"}

CurrUnits(img) ==
    <<IF img.units[1] = "unknown" THEN NoneVal ELSE img.units[1],
      IF img.units[2] = "unknown" THEN NoneVal ELSE img.units[2]>>

CurrCodes(img) == img.codes

\* line 258; dtype is the variable of line 224, '' unless keep_dtype
TargetUnits(img, dtype) ==
    <<IF CurrUnits(img)[1] # NoneVal THEN CurrUnits(img)[1] ELSE "mm",
      IF dtype = "_bold" THEN "sec" ELSE NoneVal>>

\* lines 259-264
TargetCodes(space) ==
    IF space # ""
    THEN (IF space \in StandardSpaces THEN <<4, 4>> ELSE <<2, 2>>)
    ELSE <<1, 1>>

NeedsFix(img, space, dtype) ==
    CurrCodes(img) # TargetCodes(space) \/ CurrUnits(img) # TargetUnits(img, dtype)

\* lines 268-274: set_qform, set_sform, set_xyzt_units (None is stored as
\* 'unknown') and the image written again
FixedImage(img, space, dtype) ==
    LET u == TargetUnits(img, dtype)
    IN  [kind |-> img.kind,
         codes |-> TargetCodes(space),
         units |-> <<IF u[1] = NoneVal THEN "unknown" ELSE u[1],
                     IF u[2] = NoneVal THEN "unknown" ELSE u[2]>>]

-----------------------------------------------------------------------------
(* _run_interface, lines 174-286 *)

Image(kind, codes, units) ==
    [kind |-> kind, codes |-> codes, units |-> units, meta |-> EmptyMap]

JsonFile(meta) ==
    [kind |-> "json", codes |-> <<0, 0>>, units |-> <<"unknown", "unknown">>,
     meta |-> meta]

OutFile(name, ext) == [name |-> name, ext |-> ext]
Op(op, path, i) == [op |-> op, path |-> path, i |-> i]

\* a file written (or written again) at a path
WriteFile(files, path, content) ==
    [p \in (DOMAIN files) \cup {path} |-> IF p = path THEN content ELSE files[p]]

\* the merge with the explicit dict taking priority
MergeMetaDictWins(meta_dict, md) == DictUpdate(md, meta_dict)

\* lines 175-179: construction keywords take priority over meta_dict
MergeMeta(meta_dict, md) == DictUpdate(meta_dict, md)

\* the check with `continue` where line 251 returns
CheckHdrContinue(acc, i, out, inp, dtype) ==
    IF ~(inp.check_hdr /\ IsNii(out.ext)) THEN acc
    ELSE LET nii == acc.files[out]
         IN  IF nii.kind = "other" THEN [acc EXCEPT !.exit = "raise"]
             ELSE IF ~IsNifti(nii) THEN acc
             ELSE IF NeedsFix(nii, inp.space, dtype)
             THEN [acc EXCEPT
                     !.fixed_hdr[i] = TRUE,
                     !.files = WriteFile(acc.files, out,
                                         FixedImage(nii, inp.space, dtype)),
                     !.ops = Append(acc.ops, Op("rewrite", out, i))]
             ELSE acc

\* lines 246-274 for the file just copied to `out`; acc.exit becomes "return"
\* at line 251 and "raise" when nb.load cannot read the file
CheckHdr(acc, i, out, inp, dtype) ==
    IF ~(inp.check_hdr /\ IsNii(out.ext)) THEN acc
    ELSE LET nii == acc.files[out]
         IN  IF nii.kind = "other" THEN [acc EXCEPT !.exit = "raise"]
             ELSE IF ~IsNifti(nii) THEN [acc EXCEPT !.exit = "return"]
             ELSE IF NeedsFix(nii, inp.space, dtype)
             THEN [acc EXCEPT
                     !.fixed_hdr[i] = TRUE,
                     !.files = WriteFile(acc.files, out,
                                         FixedImage(nii, inp.space, dtype)),
                     !.ops = Append(acc.ops, Op("rewrite", out, i))]
             ELSE acc

\* lines 230-244: one payload file named and copied
CopyFile(acc, i, al, inp, bname, dtype, ext) ==
    LET src == inp.in_file[i]
        extra == IF inp.extra_values.defined
                 THEN "_" \o inp.extra_values.value[i] ELSE ""
        args == [bname |-> bname, space |-> SpaceStr(inp), desc |-> DescStr(inp),
                 extra |-> extra, suffix |-> SuffixStr(inp), i |-> Fmt04d(i - 1),
                 dtype |-> dtype]
        out == OutFile(Format(FormatStr(al, inp), args), ext)
    IN  [acc EXCEPT
            !.out_file = Append(acc.out_file, out),
            !.compression = Append(acc.compression, CopyAny(src.ext, ext)),
            !.files = WriteFile(acc.files, out, src.img),
            !.ops = Append(acc.ops, Op("copy", out, i))]

\* lines 229-274: the loop over in_file, from file i on (i is 1-based here,
\* the code's index is i - 1)
RECURSIVE Loop(_, _, _, _, _, _, _)
Loop(acc, i, al, inp, bname, dtype, ext) ==
    IF i > Len(inp.in_file) \/ acc.exit # "continue" THEN acc
    ELSE IF inp.extra_values.defined /\ i > Len(inp.extra_values.value)
    THEN [acc EXCEPT !.exit = "raise"]
    ELSE LET copied == CopyFile(acc, i, al, inp, bname, dtype, ext)
             checked == CheckHdr(copied, i, Last(copied.out_file), inp, dtype)
         IN  Loop(checked, i + 1, al, inp, bname, dtype, ext)

\* lines 276-285: the sidecar, with the dynamic traits merged in
Sidecar(out) == OutFile(out.name, <<".json">>)

WritesSidecar(out_file, md) == Len(out_file) = 1 /\ md # EmptyMap

\* the state a run leaves: st is [metadata, inputs, results, fs, ops, status]
Raised(st) == [st EXCEPT !.status = "error"]

\* meta is the dict object held by inputs.meta_dict, updated in place
Aliased(inp, md) ==
    IF inp.meta_dict.defined THEN [inp EXCEPT !.meta_dict.value = md] ELSE inp

RunInterface(al, md0, inp, res, files0) ==
    LET md1 == IF inp.meta_dict.defined THEN MergeMeta(inp.meta_dict.value, md0)
               ELSE md0
        st1 == [metadata |-> md1, inputs |-> Aliased(inp, md1), results |-> res,
                fs |-> files0, ops |-> << >>, status |-> "done"]
        tokens == inp.source_file.tokens
    IN  \* line 182: rsplit('_', 1) must give two parts
        IF Len(tokens) < 2 THEN Raised(st1)
        ELSE
        LET src_fname == Front(tokens)
            dtype0 == Render(Last(tokens))
            ext == ResolveExt(SplitextExt(inp.in_file[1]), inp.compress)
            m == BidsMatch(src_fname)
        IN  \* line 199: m is None
            IF ~m.matched THEN Raised(st1)
            ELSE
            LET dirs == OutDirs(m, inp.source_file.parent)
                out_path == Last(dirs)
                bname == out_path \o "/" \o JoinTokens(src_fname)
                dtype == DtypeStr(inp, dtype0)
                acc0 == [out_file |-> res.out_file,
                         compression |-> << >>,
                         fixed_hdr |-> [j \in 1..Len(inp.in_file) |-> FALSE],
                         files |-> files0.files,
                         ops |-> <<Op("mkdir", OutFile(out_path, << >>), 0)>>,
                         exit |-> "continue"]
                acc == Loop(acc0, 1, al, inp, bname, dtype, ext)
                res2 == [res EXCEPT !.out_file = acc.out_file,
                                    !.compression = acc.compression,
                                    !.fixed_hdr = acc.fixed_hdr]
                fs2 == [dirs |-> files0.dirs \cup {dirs[j] : j \in 1..Len(dirs)},
                        files |-> acc.files]
                st2 == [st1 EXCEPT !.results = res2, !.fs = fs2, !.ops = acc.ops]
            IN  IF acc.exit = "raise" THEN Raised(st2)
                ELSE IF acc.exit = "return" THEN st2
                ELSE IF Len(acc.out_file) # 1 THEN st2
                ELSE
                LET md2 == DictUpdate(md1, inp.dynamic)
                    st3 == [st2 EXCEPT !.metadata = md2,
                                       !.inputs = Aliased(inp, md2)]
                    sidecar == Sidecar(acc.out_file[1])
                IN  IF ~WritesSidecar(acc.out_file, md2) THEN st3
                    ELSE [st3 EXCEPT
                            !.results.out_meta = sidecar,
                            !.fs.files = WriteFile(acc.files, sidecar, JsonFile(md2)),
                            !.ops = Append(acc.ops, Op("json", sidecar, 1))]

\* run(): one invocation of the writer
Run ==
    /\ nruns < MaxRuns
    /\ LET st == RunInterface(allowed, metadata, inputs, results, fs)
       IN  /\ metadata' = st.metadata
           /\ inputs' = st.inputs
           /\ results' = st.results
           /\ fs' = st.fs
           /\ ops' = st.ops
           /\ status' = st.status
    /\ nruns' = nruns + 1
    /\ UNCHANGED allowed

-----------------------------------------------------------------------------
(* Assignments to the traits of `inputs` between construction and run() *)

\* dsink.inputs.<label> = value, for a label declared in allowed_entities and
\* not assigned yet
SetEntity(k, v) ==
    /\ nruns < MaxRuns
    /\ k \in DOMAIN inputs.entities
    /\ inputs.entities[k] = Undefined
    /\ inputs' = [inputs EXCEPT !.entities[k] = v]
    /\ status' = "ready"
    /\ UNCHANGED <<allowed, metadata, results, fs, ops, nruns>>

\* dsink.inputs.meta_dict = d between two runs: the trait holds a new dict
\* object (the dict given before the first run is part of the initial state)
SetMetaDict(d) ==
    /\ nruns < MaxRuns
    /\ nruns > 0
    /\ inputs.meta_dict # [defined |-> TRUE, value |-> d]
    /\ inputs' = [inputs EXCEPT !.meta_dict = [defined |-> TRUE, value |-> d]]
    /\ status' = "ready"
    /\ UNCHANGED <<allowed, metadata, results, fs, ops, nruns>>

\* dsink.inputs.<name> = value, for a name that is no trait of the input spec:
\* DynamicTraitedSpec adds the trait
SetDynamic(k, v) ==
    /\ nruns < MaxRuns
    /\ k \notin DOMAIN inputs.dynamic
    /\ inputs' = [inputs EXCEPT !.dynamic = DictUpdate(inputs.dynamic, [x \in {k} |-> v])]
    /\ status' = "ready"
    /\ UNCHANGED <<allowed, metadata, results, fs, ops, nruns>>

\* dsink.inputs.source_file = path
SetSourceFile(src) ==
    /\ nruns < MaxRuns
    /\ inputs.source_file # src
    /\ inputs' = [inputs EXCEPT !.source_file = src]
    /\ status' = "ready"
    /\ UNCHANGED <<allowed, metadata, results, fs, ops, nruns>>

-----------------------------------------------------------------------------
(* The state after __init__, lines 156-172, with inputs drawn from small sets *)

\* all sequences over S of length 1..n
SeqsUpTo(S, n) == UNION {[1..k -> S] : k \in 1..n}

\* all dicts with keys among K and values in V
Maps(K, V) == UNION {[D -> V] : D \in SUBSET K}

NoList == [defined |-> FALSE, value |-> << >>]
List(v) == [defined |-> TRUE, value |-> v]
NoDict == [defined |-> FALSE, value |-> EmptyMap]
Dict(d) == [defined |-> TRUE, value |-> d]

Ref(parent, tokens) == [parent |-> parent, tokens |-> tokens, ext |-> <<".nii", ".gz">>]
Payload(stem, ext, img) == [stem |-> stem, ext |-> ext, img |-> img]

RefT1w == Ref("anat", <<Tok("sub", "01"), Tok("", "T1w")>>)
RefBold == Ref("func", <<Tok("sub", "02"), Tok("ses", "noanat"), Tok("task", "rest"),
                         Tok("run", "01"), Tok("", "bold")>>)
RefBoldNoSes == Ref("func", <<Tok("sub", "01"), Tok("task", "rest"), Tok("", "bold")>>)
RefTpl == Ref("anat", <<Tok("tpl", "MNI"), Tok("", "T1w")>>)
RefNoSubject == Ref("anat", <<Tok("", "xyz"), Tok("", "T1w")>>)
RefLateSubject == Ref("func", <<Tok("task", "rest"), Tok("sub", "01"), Tok("", "bold")>>)
RefEmptyId == Ref("anat", <<Tok("sub", ""), Tok("", "T1w")>>)
RefOneToken == Ref("anat", <<Tok("sub", "01")>>)

Unreadable == [kind |-> "other", codes |-> <<0, 0>>, units |-> <<"unknown", "unknown">>,
               meta |-> EmptyMap]

InitResults ==
    [out_file |-> << >>, out_meta |-> Undefined, compression |-> << >>,
     fixed_hdr |-> << >>]

Constructed(al, md, inp) ==
    /\ allowed = al
    /\ metadata = md
    /\ inputs = inp
    /\ results = InitResults
    /\ fs = [dirs |-> {}, files |-> EmptyMap]
    /\ ops = << >>
    /\ status = "ready"
    /\ nruns = 0

NoEntities(al) == [k \in {al[j] : j \in 1..Len(al)} |-> Undefined]

(* Header family: volumetric and other payloads, header check on or off *)
HeaderPayloads ==
    { Payload("raw", <<".nii", ".gz">>, Image("nifti", <<0, 0>>, <<"unknown", "unknown">>)),
      Payload("native", <<".nii">>, Image("nifti", <<1, 1>>, <<"mm", "unknown">>)),
      Payload("series", <<".nii">>, Image("nifti", <<1, 1>>, <<"mm", "sec">>)),
      Payload("aligned", <<".nii">>, Image("nifti", <<2, 2>>, <<"micron", "unknown">>)),
      Payload("std", <<".nii">>, Image("nifti", <<4, 4>>, <<"mm", "unknown">>)),
      Payload("dense", <<".nii">>, Image("cifti", <<0, 0>>, <<"unknown", "unknown">>)),
      Payload("table", <<".tsv">>, Unreadable) }

Init ==
    \E src \in {RefT1w, RefBoldNoSes}, files \in SeqsUpTo(HeaderPayloads, MaxFiles),
       chk \in BOOLEAN, keep \in BOOLEAN, sp \in {"", "MNI152NLin2009cAsym", "individual"},
       md \in Maps({"SkullStripped"}, {"true"}) :
        Constructed(<< >>, md,
            [check_hdr |-> chk, compress |-> Undefined, desc |-> "",
             extra_values |-> NoList, in_file |-> files, keep_dtype |-> keep,
             meta_dict |-> NoDict, source_file |-> src, space |-> sp,
             suffix |-> "", entities |-> EmptyMap, dynamic |-> EmptyMap])

Next == Run

Spec == Init /\ [][Next]_vars

-----------------------------------------------------------------------------
(* What the invocation of the current inputs did, read from its operations *)

NFiles == Len(inputs.in_file)
Invoked == status # "ready"
RefDatatype == Last(inputs.source_file.tokens).val

Did(kind, i) == \E j \in 1..Len(ops) : ops[j].op = kind /\ ops[j].i = i
Copied(i) == Did("copy", i)
Rewritten(i) == Did("rewrite", i)
DestOf(i) == ops[CHOOSE j \in 1..Len(ops) : ops[j].op = "copy" /\ ops[j].i = i].path
AllCopied == \A i \in 1..NFiles : Copied(i)

\* the extension every destination of the invocation gets
DestExt == ResolveExt(inputs.in_file[1].ext, inputs.compress)

-----------------------------------------------------------------------------
(* The early return of line 251, as a condition on one run() step *)

ShortCircuitAt(k) ==
    /\ inputs.check_hdr
    /\ IsNii(DestExt)
    /\ inputs.in_file[k].img.kind = "cifti"
    /\ \A j \in 1..(k - 1) : inputs.in_file[j].img.kind = "nifti"

ShortCircuitPost(k) ==
    /\ status' = "done"
    /\ Len(results'.out_file) = Len(results.out_file) + k
    /\ Len(results'.fixed_hdr) = NFiles
    /\ \A j \in k..NFiles : ~results'.fixed_hdr[j]
    /\ \E c \in 1..Len(ops') :
          /\ ops'[c] = Op("copy", Last(results'.out_file), k)
          /\ fs'.files[ops'[c].path] = inputs.in_file[k].img
    /\ \A c \in 1..Len(ops') :
          /\ ops'[c].i <= k
          /\ ops'[c].i = k => ops'[c].op = "copy"

SkippedPost ==
    /\ status' = "done"
    /\ Len(results'.out_file) = Len(results.out_file) + NFiles
    /\ \A i \in 1..NFiles :
          /\ ~results'.fixed_hdr[i]
          /\ \E c \in 1..Len(ops') : ops'[c].op = "copy" /\ ops'[c].i = i
          /\ \A c \in 1..Len(ops') : ops'[c].i = i => ops'[c].op # "rewrite"

ShortCircuitStep ==
    nruns' = nruns + 1 =>
        /\ \A k \in 1..NFiles : ShortCircuitAt(k) => ShortCircuitPost(k)
        /\ (inputs.check_hdr /\ ~IsNii(DestExt)) => SkippedPost

(* C10: short-circuit on an unsupported header type.  With check_hdr on,   *)
(* when the destination of payload k is named .nii/.nii.gz and loads as an *)
(* image that is not NIfTI-1/2 (the files before it being NIfTI), the      *)
(* invocation ends without error, file k is copied and left as it was,     *)
(* fixed_hdr[k] is False, and no later file is copied, checked or added to *)
(* out_file, their flags staying False.  When the destinations are not     *)
(* named .nii/.nii.gz, no file is checked and every file is copied.        *)
ShortCircuit == [][ShortCircuitStep]_vars

ShortCircuitWitness ==
    /\ status = "done"
    /\ inputs.check_hdr
    /\ NFiles = 2
    /\ inputs.in_file[1].img.kind = "cifti"
    /\ inputs.in_file[1].ext = <<".nii">>
    /\ Copied(1) /\ ~Copied(2)
    /\ Len(results.out_file) = 1
    /\ results.fixed_hdr = <<FALSE, FALSE>>

-----------------------------------------------------------------------------
(* The header check as sections 4.5 and 8 state it *)

\* payload i was copied to a .nii/.nii.gz name and loaded as NIfTI-1/2
HeaderChecked(i) ==
    /\ Invoked
    /\ inputs.check_hdr
    /\ IsNii(DestExt)
    /\ Copied(i)
    /\ inputs.in_file[i].img.kind = "nifti"

Unset(u) == IF u = "unknown" THEN NoneVal ELSE u

StatedCodes ==
    CASE inputs.space = "" -> <<1, 1>>
      [] inputs.space \in StandardSpaces -> <<4, 4>>
      [] OTHER -> <<2, 2>>

\* temporal: by the datatype token of the reference alone
StatedUnits(img) ==
    <<IF img.units[1] = "unknown" THEN "mm" ELSE img.units[1],
      IF RefDatatype = "bold" THEN "sec" ELSE NoneVal>>

UnitsOf(img) == <<Unset(img.units[1]), Unset(img.units[2])>>

(* C7: the target temporal unit is 'sec' exactly when the datatype token  *)
(* of the reference is bold, whatever keep_dtype is, and the target        *)
(* spatial unit is the current one, or 'mm' for 'unknown': every checked   *)
(* file ends with these units.                                             *)
TemporalUnitByDatatype ==
    \A i \in 1..NFiles :
        HeaderChecked(i) =>
            UnitsOf(fs.files[DestOf(i)]) = StatedUnits(inputs.in_file[i].img)

(* C6: with check_hdr on, every NIfTI destination ends with the target    *)
(* codes ((1,1) without space, (4,4) for a standard space, (2,2) for any   *)
(* other) and the target units; fixed_hdr[i] is True exactly when codes or *)
(* units differed from the targets before the check; a conformant image is *)
(* not rewritten.                                                          *)
HeaderNormalized ==
    \A i \in 1..NFiles :
        HeaderChecked(i) =>
            LET before == inputs.in_file[i].img
                after == fs.files[DestOf(i)]
                differed == \/ before.codes # StatedCodes
                            \/ UnitsOf(before) # StatedUnits(before)
            IN  /\ after.codes = StatedCodes
                /\ UnitsOf(after) = StatedUnits(before)
                /\ results.fixed_hdr[i] = differed
                /\ Rewritten(i) = differed

(* C8: no state persists across calls.  After an invocation that ended     *)
(* without error and copied every payload file, out_file, compression and  *)
(* fixed_hdr each hold one entry per payload file, entry i describing      *)
(* payload file i.                                                         *)
OneEntryPerPayload ==
    (Invoked /\ status = "done" /\ AllCopied) =>
        /\ Len(results.out_file) = NFiles
        /\ Len(results.compression) = NFiles
        /\ Len(results.fixed_hdr) = NFiles
        /\ \A i \in 1..NFiles :
              /\ results.out_file[i] = DestOf(i)
              /\ results.fixed_hdr[i] = Rewritten(i)

-----------------------------------------------------------------------------
(* Naming family: references, labels, declared extra labels, compression   *)
(* and payload extensions vary; the header check is off.                   *)

NamingPayloads ==
    { Payload("a", <<".nii">>, Unreadable),
      Payload("b", <<".tsv", ".gz">>, Unreadable) }

NamingRefs == {RefBold, RefTpl, RefNoSubject, RefLateSubject, RefEmptyId, RefOneToken}

ExtraValues == {NoList, List(<<"x">>), List(<<"x", "y", "z", "w">>)}

NamingInit ==
    \E al \in {<< >>, <<"from", "to">>}, src \in NamingRefs,
       files \in SeqsUpTo(NamingPayloads, MaxFiles),
       keep \in BOOLEAN, sp \in {"", "individual"}, de \in {"", "preproc"},
       su \in {"", "mask"}, co \in {Undefined, "True", "False"}, ev \in ExtraValues :
        Constructed(al, EmptyMap,
            [check_hdr |-> FALSE, compress |-> co, desc |-> de,
             extra_values |-> ev, in_file |-> files, keep_dtype |-> keep,
             meta_dict |-> NoDict, source_file |-> src, space |-> sp,
             suffix |-> su, entities |-> NoEntities(al), dynamic |-> EmptyMap])

NamingNext ==
    \/ Run
    \/ \E k \in {"from", "to"}, v \in {"orig"} : SetEntity(k, v)

NamingSpec == NamingInit /\ [][NamingNext]_vars

-----------------------------------------------------------------------------
(* The file name as sections 4.2 and 6 state it *)

RefTokens == inputs.source_file.tokens

\* the reference starts with sub-<alnum> or tpl-<alnum>
StartsWithSubject ==
    /\ RefTokens # << >>
    /\ RefTokens[1].key \in {"sub", "tpl"}
    /\ RefTokens[1].val # ""

\* the session label, when it follows the subject label in the name without
\* its datatype token
HasSession ==
    /\ Len(RefTokens) > 2
    /\ RefTokens[2].key = "ses"
    /\ RefTokens[2].val # ""

StatedDir ==
    "/out/templateflowreg/" \o Render(RefTokens[1])
        \o (IF HasSession THEN "/" \o Render(RefTokens[2]) ELSE "")
        \o "/" \o inputs.source_file.parent

RECURSIVE StatedLabels(_)
StatedLabels(al) ==
    IF al = << >> THEN ""
    ELSE (IF inputs.entities[Head(al)] = Undefined THEN ""
          ELSE "_" \o Head(al) \o "-" \o inputs.entities[Head(al)])
         \o StatedLabels(Tail(al))

\* everything before the per-item part: reference name without its datatype
\* token, then space, desc and the declared labels in declared order
StatedPrefix ==
    StatedDir \o "/" \o JoinTokens(Front(RefTokens))
        \o (IF inputs.space = "" THEN "" ELSE "_space-" \o inputs.space)
        \o (IF inputs.desc = "" THEN "" ELSE "_desc-" \o inputs.desc)
        \o StatedLabels(allowed)

StatedSuffix == IF inputs.suffix = "" THEN "" ELSE "_" \o inputs.suffix
StatedDatatype == IF inputs.keep_dtype THEN "_" \o RefDatatype ELSE ""
StatedIndex(i) == <<"0000", "0001", "0002", "0003", "0004", "0005">>[i]
Indexed == NFiles > 1 /\ ~inputs.extra_values.defined

StatedExt(ext) ==
    CASE inputs.compress = "True" /\ (ext = << >> \/ Last(ext) # ".gz") -> ext \o <<".gz">>
      [] inputs.compress = "False" /\ ext # << >> /\ Last(ext) = ".gz" -> Front(ext)
      [] OTHER -> ext

IndexedNames ==
    Invoked =>
        /\ Indexed =>
              /\ \A i \in 1..NFiles : Copied(i) =>
                    DestOf(i).name = StatedPrefix \o StatedSuffix \o StatedIndex(i)
                                        \o StatedDatatype
              /\ \A i, j \in 1..NFiles :
                    (Copied(i) /\ Copied(j) /\ i # j) =>
                        /\ DestOf(i).name # DestOf(j).name
                        /\ DestOf(i).ext = DestOf(j).ext
        /\ (NFiles = 1 /\ ~inputs.extra_values.defined /\ Copied(1)) =>
              DestOf(1).name = StatedPrefix \o StatedSuffix \o StatedDatatype
        /\ inputs.extra_values.defined =>
              \A i \in 1..NFiles : Copied(i) =>
                  DestOf(i).name = StatedPrefix \o "_" \o inputs.extra_values.value[i]
                                      \o StatedSuffix \o StatedDatatype

IndexedNamesWitness ==
    /\ status = "done"
    /\ NFiles = 2 /\ Indexed /\ Copied(1) /\ Copied(2)
    /\ inputs.suffix = "mask" /\ inputs.keep_dtype
    /\ DestOf(2).name =
          "/out/templateflowreg/sub-02/ses-noanat/func/sub-02_ses-noanat_task-rest_run-01_mask0001_bold"

(* C5: the extension of every destination is the compression rule applied *)
(* to that payload file's own extension, in mixed batches too.             *)
OwnExtension ==
    \A i \in 1..NFiles :
        (Invoked /\ Copied(i)) => DestOf(i).ext = StatedExt(inputs.in_file[i].ext)

(* Parsing of the reference, as a condition on one run() step *)
ParseStep ==
    nruns' = nruns + 1 =>
        /\ ~StartsWithSubject =>
              /\ status' = "error"
              /\ ops' = << >>
              /\ fs' = fs
              /\ results' = results
        /\ (StartsWithSubject /\ Len(RefTokens) > 1
              /\ (inputs.extra_values.defined =>
                    Len(inputs.extra_values.value) >= NFiles)) =>
              /\ status' = "done"
              /\ fs'.dirs # {}

(* C9: a reference that does not start with a subject label makes the      *)
(* invocation fail before any filesystem effect: no directory, no copy, no *)
(* sidecar, no output path.  A reference with a subject label and a        *)
(* datatype token never fails for lacking ses, task, acq, rec or run.      *)
ParseFailure == [][ParseStep]_vars

ParseFailureWitness ==
    /\ status = "error"
    /\ nruns = 2
    /\ inputs.source_file = RefLateSubject
    /\ fs.dirs = {}
    /\ results.out_file = << >>

-----------------------------------------------------------------------------
(* Metadata family: construction keywords, meta_dict and dynamic traits    *)
(* vary; one writer is run again after its inputs are changed.             *)

CtorKeywords ==
    { EmptyMap,
      [SkullStripped |-> "true"],
      [RepetitionTime |-> "0.75", SkullStripped |-> "true"] }

MetaDicts ==
    { EmptyMap,
      [Z |-> "solo"],
      [RepetitionTime |-> "1.75"],
      [RepetitionTime |-> "1.75", SkullStripped |-> "false", Z |-> "val"] }

MetaPayloads == { Payload("a", <<".nii", ".gz">>, Unreadable) }

MetaInit ==
    \E md \in CtorKeywords, d \in {NoDict} \cup {Dict(x) : x \in MetaDicts},
       files \in SeqsUpTo(MetaPayloads, MaxFiles), src \in {RefBold, RefNoSubject} :
        Constructed(<< >>, md,
            [check_hdr |-> FALSE, compress |-> Undefined, desc |-> "preproc",
             extra_values |-> NoList, in_file |-> files, keep_dtype |-> TRUE,
             meta_dict |-> d, source_file |-> src, space |-> "",
             suffix |-> "", entities |-> EmptyMap, dynamic |-> EmptyMap])

MetaNext ==
    \/ Run
    \/ \E d \in MetaDicts : SetMetaDict(d)
    \/ \E k \in {"RepetitionTime", "EchoTime"} : SetDynamic(k, "0.05")
    \/ SetSourceFile(RefBold)

MetaSpec == MetaInit /\ [][MetaNext]_vars

-----------------------------------------------------------------------------
(* The sidecar as sections 3, 4.6 and 8 state it *)

\* the sidecar the step wrote, if it wrote one
WroteSidecar == \E c \in 1..Len(ops') : ops'[c].op = "json"
SidecarMeta == fs'.files[ops'[CHOOSE c \in 1..Len(ops') : ops'[c].op = "json"].path].meta

SuppliedDict == IF inputs.meta_dict.defined THEN inputs.meta_dict.value ELSE EmptyMap

(* Explicit dict first, on the first run() step of a writer *)
DictWinsStep ==
    (nruns = 0 /\ nruns' = 1 /\ WroteSidecar /\ inputs.dynamic = EmptyMap) =>
        \A k \in DOMAIN SuppliedDict :
            /\ k \in DOMAIN SidecarMeta
            /\ SidecarMeta[k] = SuppliedDict[k]

(* C1 as stated: a key given as a construction keyword and in meta_dict    *)
(* has its meta_dict value in the sidecar (explicit dict wins), and a key  *)
(* only in meta_dict has its meta_dict value.  Checked on the first        *)
(* invocation of a writer, where self._metadata is the keywords.           *)
DictWins == [][DictWinsStep]_vars

(* Dynamic traits, then what the writer holds, then meta_dict *)
KeywordsWinStep ==
    (nruns' = nruns + 1 /\ WroteSidecar) =>
        /\ DOMAIN SidecarMeta =
              (DOMAIN SuppliedDict) \cup (DOMAIN metadata) \cup (DOMAIN inputs.dynamic)
        /\ \A k \in DOMAIN SidecarMeta :
              SidecarMeta[k] =
                  IF k \in DOMAIN inputs.dynamic THEN inputs.dynamic[k]
                  ELSE IF k \in DOMAIN metadata THEN metadata[k]
                  ELSE SuppliedDict[k]

(* C1, amended: the sidecar holds, for every key, the value of the dynamic *)
(* input trait of that name if one is set, else the value the writer       *)
(* already holds (the construction keywords, and what earlier invocations  *)
(* merged), else the meta_dict value: construction keywords win over       *)
(* meta_dict, and a key only in meta_dict appears with its meta_dict       *)
(* value.                                                                  *)
KeywordsWin == [][KeywordsWinStep]_vars

\* the doctest of lines 127-149 with RepetitionTime a construction keyword
KeywordsWinWitness ==
    /\ status = "done"
    /\ nruns = 1
    /\ inputs.dynamic = EmptyMap
    /\ Did("json", 1)
    /\ fs.files[Sidecar(DestOf(1))].meta =
          [RepetitionTime |-> "0.75", SkullStripped |-> "true", Z |-> "val"]

(* C2: a sidecar is written, and reported as out_meta, if and only if the  *)
(* invocation processed exactly one payload file, whatever the earlier     *)
(* runs of the writer.  Stated for invocations that copied every payload   *)
(* file and hold some metadata.                                            *)
SidecarIffOneFile ==
    (status = "done" /\ AllCopied /\ metadata # EmptyMap) =>
        /\ NFiles = 1 =>
              /\ Did("json", 1)
              /\ results.out_meta = Sidecar(DestOf(1))
        /\ NFiles > 1 => ~Did("json", 1)

====
